---- MODULE Spec2Model ----
(***************************************************************************)
(* Model of the bank-account core of banco.py / main.py: the entity        *)
(* Cuenta, the repository RepositorioCuentaSQLite (table "cuentas"), the   *)
(* use case CasoDeUsoCuenta and the start-up step of the composition root. *)
(*                                                                         *)
(* Several instances of the program (Procs) share one database file.  Each *)
(* instance runs the start-up step and then serves deposit / withdraw      *)
(* requests; a request is the three statements of the use case             *)
(* (obtener_por_id, Cuenta.depositar|retirar, guardar), each one step, so  *)
(* requests of different instances interleave statement by statement.      *)
(*                                                                         *)
(* Amounts and balances are Python floats (both adapters pass the result   *)
(* of float(text) to the use case).  A float is modelled by its class:     *)
(* a small finite whole number (added and subtracted exactly), the large   *)
(* finite number 1e308 and its negative, +inf, -inf, or nan, with the      *)
(* IEEE-754 rules for +, -, > and <= among them.                           *)
(***************************************************************************)
EXTENDS Integers, FiniteSets

\* ------------------------------------------------------------------ bounds

\* Use-case calls (depositar / retirar) made in a run, over all instances.
MaxPeticiones == 2
\* Program starts in a run, over all instances.
MaxArranques == 2

\* ---------------------------------------------------------------- constants

\* The id of the test account of the composition root.
IdPrueba == "12345"

Procs == {"p1", "p2"}
Ids == {"12345", "67890"}
\* ------------------------------------------------------------------- floats

Fin(n) == [clase |-> "fin", v |-> n]
\* 1e308: finite, absorbs any small addend, and 1e308 + 1e308 overflows.
Grande == [clase |-> "grande", v |-> 0]
NGrande == [clase |-> "ngrande", v |-> 0]
Inf == [clase |-> "inf", v |-> 0]
NInf == [clase |-> "ninf", v |-> 0]
NaN == [clase |-> "nan", v |-> 0]

EsNaN(x) == x.clase = "nan"

\* Position of a class on the number line (nan has none).
Nivel(x) ==
    CASE x.clase = "ninf" -> -2
      [] x.clase = "ngrande" -> -1
      [] x.clase = "fin" -> 0
      [] x.clase = "grande" -> 1
      [] x.clase = "inf" -> 2
      [] OTHER -> 0

\* x < y; False when either is nan.
FLt(x, y) ==
    /\ ~EsNaN(x) /\ ~EsNaN(y)
    /\ \/ Nivel(x) < Nivel(y)
       \/ Nivel(x) = Nivel(y) /\ x.v < y.v

\* x > y
FGt(x, y) == FLt(y, x)

\* x <= y; False when either is nan.
FLe(x, y) == ~EsNaN(x) /\ ~EsNaN(y) /\ ~FLt(y, x)

\* -x
FNeg(x) ==
    CASE x.clase = "fin" -> Fin(-x.v)
      [] x.clase = "grande" -> NGrande
      [] x.clase = "ngrande" -> Grande
      [] x.clase = "inf" -> NInf
      [] x.clase = "ninf" -> Inf
      [] OTHER -> NaN

\* x + y
FAdd(x, y) ==
    IF EsNaN(x) \/ EsNaN(y) THEN NaN
    ELSE IF x.clase = "inf" \/ y.clase = "inf"
         THEN (IF x.clase = "ninf" \/ y.clase = "ninf" THEN NaN ELSE Inf)
    ELSE IF x.clase = "ninf" \/ y.clase = "ninf" THEN NInf
    ELSE IF x.clase = "grande"
         THEN (IF y.clase = "grande" THEN Inf
               ELSE IF y.clase = "ngrande" THEN Fin(0) ELSE Grande)
    ELSE IF x.clase = "ngrande"
         THEN (IF y.clase = "ngrande" THEN NInf
               ELSE IF y.clase = "grande" THEN Fin(0) ELSE NGrande)
    ELSE IF y.clase \in {"grande", "ngrande"} THEN y
    ELSE Fin(x.v + y.v)

\* x - y
FSub(x, y) == FAdd(x, FNeg(y))

\* Amounts a caller may pass: what float() returns for the text typed.
Montos == {NaN, NInf, Fin(-10), Fin(0), Fin(10), Grande, Inf}
\* The balances the accounts found in the database file were created with.
SaldosIniciales == {Fin(10)}

\* The balance of the test account of the composition root: 100.0.
SaldoPrueba == Fin(100)

\* The program an instance runs: the GUI (banco.py) or the CLI (main.py).
Programa(p) == IF p = "p1" THEN "banco" ELSE "main"

ErrNinguno == "ok"
ErrMonto == "El monto debe ser mayor a 0"
ErrFondos == "Fondos insuficientes"
ErrNoEncontrada == "Cuenta no encontrada"
ErrIntegridad == "NOT NULL constraint failed: cuentas.saldo"

\* ------------------------------------------------------------------- domain

\* Cuenta.__init__
Cuenta(id_cuenta, saldo) == [id_cuenta |-> id_cuenta, saldo |-> saldo]

\* No Cuenta object (a local variable not bound).
SinCuenta == Cuenta("", Fin(0))

CuentaDepositarAceptaCero(c, monto) ==
    IF FLt(monto, Fin(0))
    THEN [error |-> ErrMonto, cuenta |-> c]
    ELSE [error |-> ErrNinguno, cuenta |-> [c EXCEPT !.saldo = FAdd(@, monto)]]

CuentaDepositarResta(c, monto) ==
    IF FLe(monto, Fin(0))
    THEN [error |-> ErrMonto, cuenta |-> c]
    ELSE [error |-> ErrNinguno, cuenta |-> [c EXCEPT !.saldo = FSub(@, monto)]]

\* Cuenta.depositar: the result is the exception raised (or none) and the
\* object as the call leaves it.
CuentaDepositar(c, monto) ==
    IF FLe(monto, Fin(0))
    THEN [error |-> ErrMonto, cuenta |-> c]
    ELSE [error |-> ErrNinguno, cuenta |-> [c EXCEPT !.saldo = FAdd(@, monto)]]

CuentaRetirarMutaAntes(c, monto) ==
    IF FGt(monto, c.saldo)
    THEN [error |-> ErrFondos, cuenta |-> [c EXCEPT !.saldo = FSub(@, monto)]]
    ELSE [error |-> ErrNinguno, cuenta |-> [c EXCEPT !.saldo = FSub(@, monto)]]

\* Cuenta.retirar
CuentaRetirar(c, monto) ==
    IF FGt(monto, c.saldo)
    THEN [error |-> ErrFondos, cuenta |-> c]
    ELSE [error |-> ErrNinguno, cuenta |-> [c EXCEPT !.saldo = FSub(@, monto)]]

\* --------------------------------------------------------------- repository

\* The rows of table cuentas with the given primary key.
Filas(t, id_cuenta) == {f \in t : f.id_cuenta = id_cuenta}

\* PRIMARY KEY (id_cuenta): at most one row per id.
ClavePrimaria(t) == \A f, g \in t : f.id_cuenta = g.id_cuenta => f = g

ObtenerPorIdPorDefecto(t, id_cuenta) ==
    IF Filas(t, id_cuenta) = {}
    THEN [error |-> ErrNinguno, cuenta |-> Cuenta(id_cuenta, Fin(0))]
    ELSE LET fila == CHOOSE f \in Filas(t, id_cuenta) : TRUE
         IN  [error |-> ErrNinguno, cuenta |-> Cuenta(fila.id_cuenta, fila.saldo)]

\* RepositorioCuentaSQLite.obtener_por_id: SELECT ... WHERE id_cuenta = ?,
\* fetchone(), ValueError when there is no row.
ObtenerPorId(t, id_cuenta) ==
    IF Filas(t, id_cuenta) = {}
    THEN [error |-> ErrNoEncontrada, cuenta |-> SinCuenta]
    ELSE LET fila == CHOOSE f \in Filas(t, id_cuenta) : TRUE
         IN  [error |-> ErrNinguno, cuenta |-> Cuenta(fila.id_cuenta, fila.saldo)]

\* RepositorioCuentaSQLite.guardar: INSERT OR REPLACE deletes the row that
\* holds the same primary key and inserts the new one, in one transaction.
\* sqlite3 binds nan as NULL, which column saldo (REAL NOT NULL) refuses:
\* IntegrityError is raised and "with self.conn" rolls back.
Guardar(t, c) ==
    IF EsNaN(c.saldo)
    THEN [error |-> ErrIntegridad, tabla |-> t]
    ELSE [error |-> ErrNinguno,
          tabla |-> (t \ Filas(t, c.id_cuenta)) \cup {Cuenta(c.id_cuenta, c.saldo)}]

\* Where an instance is after guardar raised sqlite3.IntegrityError inside a
\* use case: banco.py catches sqlite3.DatabaseError and shows a dialog,
\* main.py only catches ValueError and the process ends.
TrasErrorDeGuardar(p) == IF Programa(p) = "banco" THEN "menu" ELSE "apagado"

\* ----------------------------------------------------------------- use case

\* The statement cuenta.depositar(monto) / cuenta.retirar(monto) of
\* CasoDeUsoCuenta.depositar / CasoDeUsoCuenta.retirar.
Mutar(operacion, c, monto) ==
    IF operacion = "depositar" THEN CuentaDepositar(c, monto)
                               ELSE CuentaRetirar(c, monto)

\* The start-up step: "except ValueError" after obtener_por_id("12345").
ArranqueDebeCrear(r) == r.error = ErrNoEncontrada

\* -------------------------------------------------------------------- state

VARIABLES
    tabla,      \* the rows of table cuentas in the database file
    pc,         \* per instance: the statement it is at
    operacion,  \* per instance: the use case being executed
    monto,      \* per instance: the amount of the request
    cuenta,     \* per instance: the local variable cuenta of the use case
    leido,      \* history: the balance the request's obtener_por_id returned
    solo,       \* history: no other instance has taken a step during the request
    gemelo,     \* history: what other instances saved to the request's account
                \* while the request was running
    peticiones, \* history: use-case calls made so far
    arranques,  \* history: program starts so far
    ev          \* history: the step just taken

vars == <<tabla, pc, operacion, monto, cuenta, leido, solo, gemelo,
          peticiones, arranques, ev>>

EnCurso(p) == pc[p] \in {"mutar", "guardar"}

\* gemelo[p]: "ninguno" (no other instance saved the account), "gemelo" (exactly
\* one did, completing a call with the same use case, amount and balance read
\* as p's), "distinto" (anything else).
GemeloTras(q, op, m, l) ==
    IF gemelo[q] = "ninguno" /\ operacion[q] = op /\ monto[q] = m /\ leido[q] = l
    THEN "gemelo" ELSE "distinto"

Evento(tipo, p, op, id, m, err, antes, despues, l, s, g) ==
    [tipo |-> tipo, proc |-> p, operacion |-> op, id_cuenta |-> id, monto |-> m,
     error |-> err, antes |-> antes, despues |-> despues,
     tablaAntes |-> tabla, leido |-> l, solo |-> s, gemelo |-> g]

\* A step of p is a step "of another instance" for every other request.
Interrumpe(p) == [q \in Procs |-> IF q = p THEN solo[q] ELSE FALSE]

TablasIniciales ==
    {t \in SUBSET {Cuenta(i, s) : i \in Ids, s \in SaldosIniciales} : ClavePrimaria(t)}

Init ==
    /\ tabla \in TablasIniciales
    /\ pc = [p \in Procs |-> "apagado"]
    /\ operacion = [p \in Procs |-> ""]
    /\ monto = [p \in Procs |-> Fin(0)]
    /\ cuenta = [p \in Procs |-> SinCuenta]
    /\ leido = [p \in Procs |-> Fin(0)]
    /\ solo = [p \in Procs |-> FALSE]
    /\ gemelo = [p \in Procs |-> "ninguno"]
    /\ peticiones = 0
    /\ arranques = 0
    /\ ev = Evento("inicio", "", "", "", Fin(0), ErrNinguno, SinCuenta, SinCuenta,
                   Fin(0), FALSE, "ninguno")

\* ------------------------------------------------------------------ actions

\* Start of an instance: the repository and the use case are constructed
\* (CREATE TABLE IF NOT EXISTS changes no row) and the test account is looked up.
Iniciar(p) ==
    /\ pc[p] = "apagado"
    /\ arranques < MaxArranques
    /\ arranques' = arranques + 1
    /\ LET r == ObtenerPorId(tabla, IdPrueba)
       IN  /\ pc' = [pc EXCEPT ![p] = IF ArranqueDebeCrear(r) THEN "arranque_guardar"
                                                             ELSE "menu"]
           /\ ev' = Evento("arranque_obtener", p, "", IdPrueba, Fin(0), r.error,
                           r.cuenta, r.cuenta, Fin(0), FALSE, "ninguno")
    /\ solo' = Interrumpe(p)
    /\ UNCHANGED <<tabla, operacion, monto, cuenta, leido, gemelo, peticiones>>

\* Start-up, except branch: repositorio.guardar(Cuenta("12345", 100.0)).
ArranqueGuardar(p) ==
    /\ pc[p] = "arranque_guardar"
    /\ tabla' = Guardar(tabla, Cuenta(IdPrueba, SaldoPrueba)).tabla
    /\ pc' = [pc EXCEPT ![p] = "menu"]
    /\ ev' = Evento("arranque_guardar", p, "", IdPrueba, Fin(0),
                    Guardar(tabla, Cuenta(IdPrueba, SaldoPrueba)).error,
                    Cuenta(IdPrueba, SaldoPrueba), Cuenta(IdPrueba, SaldoPrueba),
                    Fin(0), FALSE, "ninguno")
    /\ solo' = Interrumpe(p)
    /\ gemelo' = [q \in Procs |->
                    IF q # p /\ EnCurso(q) /\ cuenta[q].id_cuenta = IdPrueba
                    THEN "distinto" ELSE gemelo[q]]
    /\ UNCHANGED <<operacion, monto, cuenta, leido, peticiones, arranques>>

\* First statement of CasoDeUsoCuenta.depositar / retirar, called with
\* (id, m): cuenta = self.repositorio_cuentas.obtener_por_id(id_cuenta).
PasoObtener(p, op, id, m) ==
    /\ pc[p] = "menu"
    /\ peticiones < MaxPeticiones
    /\ peticiones' = peticiones + 1
    /\ LET r == ObtenerPorId(tabla, id)
       IN  IF r.error # ErrNinguno
           THEN /\ ev' = Evento("obtener", p, op, id, m, r.error,
                                r.cuenta, r.cuenta, Fin(0), TRUE, "ninguno")
                /\ UNCHANGED <<pc, operacion, monto, cuenta, leido, gemelo>>
                /\ solo' = Interrumpe(p)
           ELSE /\ pc' = [pc EXCEPT ![p] = "mutar"]
                /\ operacion' = [operacion EXCEPT ![p] = op]
                /\ monto' = [monto EXCEPT ![p] = m]
                /\ cuenta' = [cuenta EXCEPT ![p] = r.cuenta]
                /\ leido' = [leido EXCEPT ![p] = r.cuenta.saldo]
                /\ gemelo' = [gemelo EXCEPT ![p] = "ninguno"]
                /\ solo' = [Interrumpe(p) EXCEPT ![p] = TRUE]
                /\ ev' = Evento("obtener", p, op, id, m, ErrNinguno,
                                r.cuenta, r.cuenta, r.cuenta.saldo, TRUE, "ninguno")
    /\ UNCHANGED <<tabla, arranques>>

\* Second statement: cuenta.depositar(monto) / cuenta.retirar(monto).  An
\* exception leaves the use case, so guardar is not reached.
PasoMutar(p) ==
    /\ pc[p] = "mutar"
    /\ LET r == Mutar(operacion[p], cuenta[p], monto[p])
       IN  /\ ev' = Evento("mutar", p, operacion[p], cuenta[p].id_cuenta, monto[p],
                           r.error, cuenta[p], r.cuenta, leido[p], solo[p], gemelo[p])
           /\ IF r.error # ErrNinguno
              THEN /\ pc' = [pc EXCEPT ![p] = "menu"]
                   /\ operacion' = [operacion EXCEPT ![p] = ""]
                   /\ monto' = [monto EXCEPT ![p] = Fin(0)]
                   /\ cuenta' = [cuenta EXCEPT ![p] = SinCuenta]
                   /\ leido' = [leido EXCEPT ![p] = Fin(0)]
                   /\ gemelo' = [gemelo EXCEPT ![p] = "ninguno"]
                   /\ solo' = [Interrumpe(p) EXCEPT ![p] = FALSE]
              ELSE /\ pc' = [pc EXCEPT ![p] = "guardar"]
                   /\ cuenta' = [cuenta EXCEPT ![p] = r.cuenta]
                   /\ solo' = Interrumpe(p)
                   /\ UNCHANGED <<operacion, monto, leido, gemelo>>
    /\ UNCHANGED <<tabla, peticiones, arranques>>

\* Third statement: self.repositorio_cuentas.guardar(cuenta); the use case
\* returns, or guardar raises and the exception reaches the adapter.
PasoGuardar(p) ==
    /\ pc[p] = "guardar"
    /\ LET r == Guardar(tabla, cuenta[p])
       IN  /\ tabla' = r.tabla
           /\ ev' = Evento("guardar", p, operacion[p], cuenta[p].id_cuenta, monto[p],
                           r.error, cuenta[p], cuenta[p], leido[p], solo[p], gemelo[p])
           /\ pc' = [pc EXCEPT ![p] = IF r.error = ErrNinguno THEN "menu"
                                      ELSE TrasErrorDeGuardar(p)]
           /\ gemelo' = [q \in Procs |->
                           IF q = p THEN "ninguno"
                           ELSE IF /\ r.error = ErrNinguno
                                   /\ EnCurso(q)
                                   /\ cuenta[q].id_cuenta = cuenta[p].id_cuenta
                                THEN GemeloTras(q, operacion[p], monto[p], leido[p])
                                ELSE gemelo[q]]
    /\ operacion' = [operacion EXCEPT ![p] = ""]
    /\ monto' = [monto EXCEPT ![p] = Fin(0)]
    /\ cuenta' = [cuenta EXCEPT ![p] = SinCuenta]
    /\ leido' = [leido EXCEPT ![p] = Fin(0)]
    /\ solo' = [Interrumpe(p) EXCEPT ![p] = FALSE]
    /\ UNCHANGED <<peticiones, arranques>>

\* The instance ends (menu option 4, or the window is closed).
Salir(p) ==
    /\ pc[p] = "menu"
    /\ pc' = [pc EXCEPT ![p] = "apagado"]
    /\ ev' = Evento("salir", p, "", "", Fin(0), ErrNinguno, SinCuenta, SinCuenta,
                    Fin(0), FALSE, "ninguno")
    /\ solo' = Interrumpe(p)
    /\ UNCHANGED <<tabla, operacion, monto, cuenta, leido, gemelo, peticiones, arranques>>

Next ==
    \/ \E p \in Procs : Iniciar(p)
    \/ \E p \in Procs : ArranqueGuardar(p)
    \/ \E p \in Procs, op \in {"depositar", "retirar"}, id \in Ids, m \in Montos :
         PasoObtener(p, op, id, m)
    \/ \E p \in Procs : PasoMutar(p)
    \/ \E p \in Procs : PasoGuardar(p)
    \/ \E p \in Procs : Salir(p)

Spec == Init /\ [][Next]_vars

\* ------------------------------------------------------------------ helpers

\* The balance persisted for an id (only used where the id has a row).
Persistido(t, id_cuenta) == (CHOOSE f \in Filas(t, id_cuenta) : TRUE).saldo

Existe(t, id_cuenta) == Filas(t, id_cuenta) # {}

IdsDe(t) == {f.id_cuenta : f \in t}

TypeOK ==
    /\ ClavePrimaria(tabla)
    /\ \A f \in tabla : FLe(Fin(0), f.saldo)
    /\ \A p \in Procs : pc[p] \in {"apagado", "arranque_guardar", "menu", "mutar", "guardar"}
    /\ peticiones \in 0..MaxPeticiones
    /\ arranques \in 0..MaxArranques

\* ------------------------------------------------------------------- claims

\* C1 (as claimed): every persisted balance and every balance held by a
\* Cuenta object of a running request is >= 0, whatever the amounts and the
\* interleaving.
C1_SaldoNuncaNegativo ==
    /\ \A f \in tabla : FLe(Fin(0), f.saldo)
    /\ \A p \in Procs : EnCurso(p) => FLe(Fin(0), cuenta[p].saldo)

\* C2 (as claimed): when two instances run depositar(id, 10) concurrently on an
\* account whose persisted balance is 100 (both read 100), the balance
\* persisted once both have returned is 120.
C2_SinActualizacionPerdida ==
    (/\ ev.tipo = "guardar" /\ ev.operacion = "depositar" /\ ev.monto = Fin(10)
     /\ ev.leido = Fin(100) /\ ev.gemelo = "gemelo")
    => Persistido(tabla, ev.id_cuenta) = Fin(120)

\* C3: a deposit d > 0 on an existing account is found, accepted by
\* Cuenta.depositar (balance b + d in memory) and saved without error; when
\* no other instance steps in between, b + d is the balance persisted
\* afterwards.
C3_DepositoExitoso ==
    /\ (ev.tipo = "obtener" /\ ev.operacion = "depositar"
        /\ Existe(ev.tablaAntes, ev.id_cuenta))
       => /\ ev.error = ErrNinguno
          /\ ev.despues = Cuenta(ev.id_cuenta, Persistido(ev.tablaAntes, ev.id_cuenta))
          /\ pc[ev.proc] = "mutar"
    /\ (ev.tipo = "mutar" /\ ev.operacion = "depositar" /\ FGt(ev.monto, Fin(0)))
       => /\ ev.error = ErrNinguno
          /\ ev.despues.saldo = FAdd(ev.antes.saldo, ev.monto)
          /\ pc[ev.proc] = "guardar"
    /\ (ev.tipo = "guardar" /\ ev.operacion = "depositar" /\ FGt(ev.monto, Fin(0)))
       => /\ ev.error = ErrNinguno
          /\ pc[ev.proc] = "menu"
          /\ ev.solo => /\ Persistido(ev.tablaAntes, ev.id_cuenta) = ev.leido
                        /\ Persistido(tabla, ev.id_cuenta) = FAdd(ev.leido, ev.monto)

\* C3 witness: a deposit that ran alone has just been saved.
C3_Testigo ==
    /\ ev.tipo = "guardar" /\ ev.operacion = "depositar" /\ ev.solo
    /\ ev.monto = Fin(10) /\ ev.leido = Fin(100) /\ ev.error = ErrNinguno
    /\ Persistido(tabla, ev.id_cuenta) = Fin(110)

\* C4 (as claimed): a withdrawal w with 0 < w <= b (w = b included) on an
\* existing account is accepted by Cuenta.retirar (balance b - w in memory)
\* and saved without error; when no other instance steps in between, b - w is
\* the balance persisted afterwards.
C4_RetiroExitoso ==
    /\ (ev.tipo = "obtener" /\ ev.operacion = "retirar"
        /\ Existe(ev.tablaAntes, ev.id_cuenta))
       => /\ ev.error = ErrNinguno
          /\ ev.despues = Cuenta(ev.id_cuenta, Persistido(ev.tablaAntes, ev.id_cuenta))
          /\ pc[ev.proc] = "mutar"
    /\ (ev.tipo = "mutar" /\ ev.operacion = "retirar"
        /\ FGt(ev.monto, Fin(0)) /\ FLe(ev.monto, ev.antes.saldo))
       => /\ ev.error = ErrNinguno
          /\ ev.despues.saldo = FSub(ev.antes.saldo, ev.monto)
          /\ pc[ev.proc] = "guardar"
    /\ (ev.tipo = "guardar" /\ ev.operacion = "retirar"
        /\ FGt(ev.monto, Fin(0)) /\ FLe(ev.monto, ev.leido))
       => /\ ev.error = ErrNinguno
          /\ pc[ev.proc] = "menu"
          /\ ev.solo => /\ Persistido(ev.tablaAntes, ev.id_cuenta) = ev.leido
                        /\ Persistido(tabla, ev.id_cuenta) = FSub(ev.leido, ev.monto)

\* C5: a withdrawal w > b fails with "Fondos insuficientes", the Cuenta object
\* keeps its balance, the use case returns without calling guardar and the
\* table is as it was (so, run alone, the persisted balance is still b).
C5_RetiroRechazado ==
    /\ (ev.tipo = "mutar" /\ ev.operacion = "retirar" /\ FGt(ev.monto, ev.antes.saldo))
       => /\ ev.error = ErrFondos
          /\ ev.despues = ev.antes
          /\ pc[ev.proc] = "menu"
          /\ tabla = ev.tablaAntes
          /\ ev.solo => Persistido(tabla, ev.id_cuenta) = ev.antes.saldo
    /\ (ev.tipo = "guardar" /\ ev.operacion = "retirar") => ~FGt(ev.monto, ev.leido)

\* C5 witness: a withdrawal above the balance has just been rejected.
C5_Testigo ==
    /\ ev.tipo = "mutar" /\ ev.operacion = "retirar" /\ FGt(ev.monto, ev.antes.saldo)
    /\ ev.error = ErrFondos /\ ev.solo
    /\ Persistido(tabla, ev.id_cuenta) = ev.antes.saldo

\* C6: a deposit d <= 0 (zero included) fails with "El monto debe ser mayor a
\* 0", the Cuenta object keeps its balance, the use case returns without
\* calling guardar and the table is as it was.
C6_DepositoRechazado ==
    /\ (ev.tipo = "mutar" /\ ev.operacion = "depositar" /\ FLe(ev.monto, Fin(0)))
       => /\ ev.error = ErrMonto
          /\ ev.despues = ev.antes
          /\ pc[ev.proc] = "menu"
          /\ tabla = ev.tablaAntes
          /\ ev.solo => Persistido(tabla, ev.id_cuenta) = ev.antes.saldo
    /\ (ev.tipo = "guardar" /\ ev.operacion = "depositar") => ~FLe(ev.monto, Fin(0))

\* C6 witness: a deposit of zero has just been rejected.
C6_Testigo ==
    /\ ev.tipo = "mutar" /\ ev.operacion = "depositar" /\ ev.monto = Fin(0)
    /\ ev.error = ErrMonto /\ ev.solo
    /\ Persistido(tabla, ev.id_cuenta) = ev.antes.saldo

\* C7: obtener_por_id of an id without a row fails with "Cuenta no encontrada"
\* and returns no account; the use case ends there for every amount, and no
\* step of a use case changes the set of ids that have a row.
C7_CuentaDesconocida ==
    /\ (ev.tipo = "obtener" /\ ~Existe(ev.tablaAntes, ev.id_cuenta))
       => /\ ev.error = ErrNoEncontrada
          /\ ev.despues = SinCuenta
          /\ pc[ev.proc] = "menu"
          /\ tabla = ev.tablaAntes
          /\ ~Existe(tabla, ev.id_cuenta)
    /\ ev.tipo \in {"obtener", "mutar", "guardar"} => IdsDe(tabla) = IdsDe(ev.tablaAntes)

\* C7 witness: a deposit on an id without a row has just failed.
C7_Testigo ==
    /\ ev.tipo = "obtener" /\ ev.operacion = "depositar" /\ FGt(ev.monto, Fin(0))
    /\ ev.error = ErrNoEncontrada
    /\ ~Existe(tabla, ev.id_cuenta)

\* C8 (as claimed): right after guardar(a), called by a use case (row
\* present) or by the start-up step (row absent), obtener_por_id(a.id)
\* returns a's id and balance, the table holds exactly one row for a.id and
\* the rows of the other ids are the ones it held before.
C8_IdaYVuelta ==
    ev.tipo \in {"guardar", "arranque_guardar"}
    => LET a == ev.despues
           r == ObtenerPorId(tabla, a.id_cuenta)
       IN  /\ r.error = ErrNinguno
           /\ r.cuenta.id_cuenta = a.id_cuenta
           /\ r.cuenta.saldo = a.saldo
           /\ Cardinality(Filas(tabla, a.id_cuenta)) = 1
           /\ tabla \ Filas(tabla, a.id_cuenta)
                = ev.tablaAntes \ Filas(ev.tablaAntes, a.id_cuenta)

\* C9 (as claimed): an instance that has finished start-up finds account
\* "12345"; a start-up that found no row creates it with balance 100; and a
\* start-up never changes the balance of an account that already exists,
\* whatever other instances do in between: its lookup writes nothing and its
\* guardar does not reset an existing row.
C9_Arranque ==
    /\ \A p \in Procs : pc[p] \in {"menu", "mutar", "guardar"} => Existe(tabla, IdPrueba)
    /\ (ev.tipo = "arranque_obtener" /\ ~Existe(ev.tablaAntes, IdPrueba))
       => pc[ev.proc] = "arranque_guardar"
    /\ (ev.tipo = "arranque_obtener" /\ Existe(ev.tablaAntes, IdPrueba))
       => /\ pc[ev.proc] = "menu"
          /\ tabla = ev.tablaAntes
    /\ ev.tipo = "arranque_guardar"
       => /\ ev.error = ErrNinguno
          /\ pc[ev.proc] = "menu"
          /\ IF Existe(ev.tablaAntes, IdPrueba)
             THEN Persistido(tabla, IdPrueba) = Persistido(ev.tablaAntes, IdPrueba)
             ELSE Persistido(tabla, IdPrueba) = SaldoPrueba

\* C10 (as claimed): a withdrawal that completes without error never leaves a
\* balance above the one it started from, in the Cuenta object and, run
\* alone, in the table.
C10_RetiroNuncaAumenta ==
    /\ (ev.tipo = "mutar" /\ ev.operacion = "retirar" /\ ev.error = ErrNinguno)
       => FLe(ev.despues.saldo, ev.antes.saldo)
    /\ (ev.tipo = "guardar" /\ ev.operacion = "retirar" /\ ev.error = ErrNinguno
        /\ ev.solo)
       => FLe(Persistido(tabla, ev.id_cuenta), ev.leido)

====
